---- MODULE Spec2Model ----
(***************************************************************************)
(* Model of the booking-availability engine: checkIfIsAvailable and        *)
(* getSchedule of the availability page module, and of the cancellation    *)
(* handler cancelMigrunBooking.                                            *)
(*                                                                         *)
(* Time is counted in ticks.  A dayjs value is its UTC instant (a tick     *)
(* count); the time zone it is displayed in is the request's utcOffset.    *)
(* An event length is a number of ticks.                                   *)
(***************************************************************************)
EXTENDS Integers, Sequences, FiniteSets, TLC

VARIABLES
  ck,                 \* checkIfIsAvailable applied on its own: arguments and result
  input,              \* the getSchedule request (z.infer<typeof getScheduleSchema>)
  db,                 \* what the collaborators answer: event type row, users, per-host availability, now
  pc,                 \* position of the running getSchedule call
  eventType,          \* const eventType
  users,              \* let users
  pending,            \* indexes of users whose getUserAvailability call has not resolved yet
  userAvailability,   \* const userAvailability (filled in index order by Promise.all)
  currentSeats,       \* let currentSeats
  currentCheckedTime, \* loop variable of the day loop
  timeSlots,          \* const timeSlots
  availableTimeSlots, \* let availableTimeSlots
  slots,              \* computedAvailableSlots
  error,              \* the TRPCError the call threw, or NoError
  run,                \* 1 for the first call, 2 for the repeated call with the same request
  firstSlots,         \* what the first call returned
  creq,               \* the cancellation request and the rows cancelMigrunBooking reads
  cpc,                \* position of the running cancelMigrunBooking call
  bookingStatus,      \* booking.status of every booking row
  updatedBookings,    \* let updatedBookings (booking ids)
  promises,           \* the promises of the deletions issued so far, in the order of issue
  callbacks,          \* the calls of the async forEach callback, one per calendar credential
  apiDeletes,         \* const apiDeletes
  awaited,            \* the promises handed to the final Promise.all
  response            \* what the handler answered

cancelVars == <<creq, cpc, bookingStatus, updatedBookings, promises, callbacks, apiDeletes,
                awaited, response>>

vars == <<ck, input, db, pc, eventType, users, pending, userAvailability, currentSeats,
          currentCheckedTime, timeSlots, availableTimeSlots, slots, error, run, firstSlots,
          cancelVars>>

pipelineVars == <<input, db, pc, eventType, users, pending, userAvailability, currentSeats,
                  currentCheckedTime, timeSlots, availableTimeSlots, slots, error, run, firstSlots>>

----------------------------------------------------------------------------
\* Bounds of the model

\* instants 0..MaxTime are used for the arguments of checkIfIsAvailable
MaxTime == 3
\* longest busy list handed to checkIfIsAvailable on its own
MaxBusy == 2
\* longest event length, in ticks
MaxLen == 2
\* ticks in one calendar day
DayLen == 3
\* the requested range lies within the first MaxDays days
MaxDays == 2
\* most booking rows of one recurring event
MaxBookings == 2

----------------------------------------------------------------------------
\* Values

\* An optional list is a record: defined is FALSE for undefined, list holds the items
Undefined == [defined |-> FALSE, list |-> <<>>]
Defined(l) == [defined |-> TRUE, list |-> l]

\* currentSeats === undefined
NoSeats == Undefined
\* no error thrown
NoError == "none"

\* One CurrentSeats entry: { uid, startTime, _count: { attendees } }
Seat(t, u, n) == [startTime |-> t, uid |-> u, attendees |-> n]

\* EventBusyDate values with start <= end, both ends in lo..hi
BusyIntervals(lo, hi) == {b \in [start : lo..hi, end : lo..hi] : b.start <= b.end}

\* All sequences over S of length at most n
SeqUpTo(S, n) == UNION {[1..k -> S] : k \in 0..n}

----------------------------------------------------------------------------
\* dayjs

\* Dayjs.toISOString / Date.toISOString: the UTC instant, whatever the display zone
toISOString(t) == t

\* Dayjs.isBefore / Dayjs.isAfter
isBefore(a, b) == a < b
isAfter(a, b) == a > b

\* Dayjs.isBetween(a, b, null, inclusivity), inclusivity one of "()", "[)", "(]", "[]".
\* dayjs accepts the two ends in either order.
isBetween(x, a, b, inclusivity) ==
  LET dAi == inclusivity \in {"()", "(]"}
      dBi == inclusivity \in {"()", "[)"}
  IN  \/ /\ IF dAi THEN isAfter(x, a) ELSE ~isBefore(x, a)
         /\ IF dBi THEN isBefore(x, b) ELSE ~isAfter(x, b)
      \/ /\ IF dAi THEN isBefore(x, a) ELSE ~isAfter(x, a)
         /\ IF dBi THEN isAfter(x, b) ELSE ~isBefore(x, b)

----------------------------------------------------------------------------
\* checkIfIsAvailable

\* currentSeats?.some((booking) => booking.startTime.toISOString() === time.toISOString())
someSeatAt(seats, time) ==
  /\ seats.defined
  /\ \E i \in DOMAIN seats.list : toISOString(seats.list[i].startTime) = toISOString(time)

\* busyTimeAllows without its last test: a busy time that lies inside the slot is missed
busyTimeAllowsMissingInside(time, slotStartTime, slotEndTime, busyTime) ==
  LET startTime == busyTime.start
      endTime == busyTime.end
  IN  IF isBefore(endTime, slotStartTime) \/ isAfter(startTime, slotEndTime) THEN TRUE
      ELSE IF isBetween(slotStartTime, startTime, endTime, "[)") THEN FALSE
      ELSE IF isBetween(slotEndTime, startTime, endTime, "(]") THEN FALSE
      ELSE IF isBetween(time, startTime, endTime, "[)") THEN FALSE
      ELSE IF isBetween(slotEndTime, startTime, endTime, "()") THEN FALSE
      ELSE TRUE

\* busyTimeAllows with both ends of the busy time inclusive in its first test
busyTimeAllowsInclusiveEnd(time, slotStartTime, slotEndTime, busyTime) ==
  LET startTime == busyTime.start
      endTime == busyTime.end
  IN  IF isBefore(endTime, slotStartTime) \/ isAfter(startTime, slotEndTime) THEN TRUE
      ELSE IF isBetween(slotStartTime, startTime, endTime, "[]") THEN FALSE
      ELSE IF isBetween(slotEndTime, startTime, endTime, "(]") THEN FALSE
      ELSE IF isBetween(time, startTime, endTime, "[)") THEN FALSE
      ELSE IF isBetween(slotEndTime, startTime, endTime, "()") THEN FALSE
      ELSE IF isBetween(startTime, time, slotEndTime, "()") THEN FALSE
      ELSE TRUE

\* The callback of busy.every: TRUE when busyTime leaves the slot free
busyTimeAllows(time, slotStartTime, slotEndTime, busyTime) ==
  LET startTime == busyTime.start
      endTime == busyTime.end
  IN  IF isBefore(endTime, slotStartTime) \/ isAfter(startTime, slotEndTime) THEN TRUE
      ELSE IF isBetween(slotStartTime, startTime, endTime, "[)") THEN FALSE
      ELSE IF isBetween(slotEndTime, startTime, endTime, "(]") THEN FALSE
      ELSE IF isBetween(time, startTime, endTime, "[)") THEN FALSE
      ELSE IF isBetween(slotEndTime, startTime, endTime, "()") THEN FALSE
      ELSE IF isBetween(startTime, time, slotEndTime, "()") THEN FALSE
      ELSE TRUE

\* checkIfIsAvailable without the currentSeats test
checkIfIsAvailableNoSeats(time, busy, eventLength, seats) ==
  LET slotEndTime == time + eventLength
      slotStartTime == time
  IN  \A i \in DOMAIN busy : busyTimeAllows(time, slotStartTime, slotEndTime, busy[i])

checkIfIsAvailable(time, busy, eventLength, seats) ==
  IF someSeatAt(seats, time) THEN TRUE
  ELSE LET slotEndTime == time + eventLength
           slotStartTime == time
       IN  \A i \in DOMAIN busy : busyTimeAllows(time, slotStartTime, slotEndTime, busy[i])

----------------------------------------------------------------------------
\* checkIfIsAvailable on its own: the arguments are drawn, then the function is applied

CheckSeats == {NoSeats, Defined(<<>>)} \cup {Defined(<<Seat(t, 1, 1)>>) : t \in 0..MaxTime}

CheckArgs == [time : 0..MaxTime,
              busy : SeqUpTo(BusyIntervals(0, MaxTime), MaxBusy),
              eventLength : 1..MaxLen,
              currentSeats : CheckSeats]

InitCheck ==
  /\ ck \in [args : CheckArgs, called : {FALSE}, result : {FALSE}]

Check ==
  /\ ~ck.called
  /\ ck' = [ck EXCEPT !.called = TRUE,
                      !.result = checkIfIsAvailable(ck.args.time, ck.args.busy,
                                                    ck.args.eventLength, ck.args.currentSeats)]

----------------------------------------------------------------------------
\* getSchedule: values

\* an ISO string dayjs cannot parse: isValid() is false
Invalid == -1

\* User ids; the username of user u is Username(u)
UserIds == {1, 2}
Username(u) == 10 + u

\* getDefaultEvent(input.eventTypeSlug): the event type of a dynamic booking, before
\* its users are filled in.  It has no hosts.
getDefaultEvent(slug) ==
  [found |-> TRUE, schedulingType |-> "null", users |-> <<>>, hosts |-> Undefined,
   length |-> 1, slotInterval |-> 0, minimumBookingNotice |-> 0,
   periodType |-> "UNLIMITED", periodStartDate |-> 0, periodEndDate |-> 0, periodDays |-> 0]

\* prisma.eventType.findUnique found no row
NoEventType == [getDefaultEvent(0) EXCEPT !.found = FALSE]

\* The members of a set of ids, in ascending order (the order the database returns rows in)
RECURSIVE SortedIds(_)
SortedIds(S) ==
  IF S = {} THEN <<>>
  ELSE LET m == CHOOSE x \in S : \A y \in S : x <= y
       IN  <<m>> \o SortedIds(S \ {m})

----------------------------------------------------------------------------
\* getSchedule: event type resolution

\* getEventType: the row of input.eventTypeId, or NoEventType
getEventType(database, in) == database.eventTypeRow

\* prisma.user.findMany({ where: { username: { in: input.usernameList } } })
findManyUsers(database, in) ==
  SelectSeq(SortedIds(UserIds),
            LAMBDA u : /\ database.users[u].exists
                       /\ in.usernameList.defined
                       /\ \E i \in DOMAIN in.usernameList.list :
                            in.usernameList.list[i] = Username(u))

\* isDynamicAllowed of getDynamicEventType
isDynamicAllowed(database, in) ==
  ~\E i \in DOMAIN findManyUsers(database, in) :
      ~database.users[findManyUsers(database, in)[i]].allowDynamicBooking

\* getDynamicEventType, when it does not throw
getDynamicEventType(database, in) ==
  [getDefaultEvent(in.eventTypeSlug) EXCEPT !.users = findManyUsers(database, in)]

isDynamicBooking(in) == in.eventTypeId = 0

\* the users of the event with their isFixed flag (let users = ...)
usersOf(et) ==
  IF et.schedulingType # "null" /\ et.hosts.defined /\ Len(et.hosts.list) > 0
  THEN [i \in DOMAIN et.hosts.list |->
          [id |-> et.hosts.list[i].user, isFixed |-> et.hosts.list[i].isFixed]]
  ELSE [i \in DOMAIN et.users |->
          [id |-> et.users[i],
           isFixed |-> (et.schedulingType = "null" \/ et.schedulingType = "COLLECTIVE")]]

----------------------------------------------------------------------------
\* getSchedule: the collaborators of the slot pipeline

\* Dayjs.format("YYYY-MM-DD") of instant t shown at UTC offset off: the number of the
\* calendar day in that zone
format(t, off) == (t + off) \div DayLen

\* Dayjs.startOf("day"): the instant the calendar day of t begins at, in that zone
startOfDay(t, off) == format(t, off) * DayLen - off

\* getAggregateWorkingHours: the working hours of every host, each with its userId
RECURSIVE getAggregateWorkingHours(_)
getAggregateWorkingHours(availabilities) ==
  IF availabilities = <<>> THEN <<>>
  ELSE LET a == Head(availabilities)
       IN  [i \in DOMAIN a.workingHours |->
              [userId |-> a.user.id, start |-> a.workingHours[i].start,
               end |-> a.workingHours[i].end]]
           \o getAggregateWorkingHours(Tail(availabilities))

Max(a, b) == IF a >= b THEN a ELSE b

\* The start times one working-hours entry w yields on the day that begins at dayStart
slotTimesOf(w, dayStart, eventLength, frequency, earliest) ==
  LET first == Max(dayStart + w.start, earliest)
  IN  {t \in {first + k * frequency : k \in 0..DayLen} : t + eventLength <= dayStart + w.end}

\* A set of instants as an ascending sequence
RECURSIVE Ascending(_)
Ascending(S) ==
  IF S = {} THEN <<>>
  ELSE LET m == CHOOSE x \in S : \A y \in S : x <= y
       IN  <<m>> \o Ascending(S \ {m})

\* The userIds of the entries of workingHours, in their order and without repeats,
\* that yield start time t
RECURSIVE userIdsAt(_, _, _, _, _, _, _)
userIdsAt(t, workingHours, dayStart, eventLength, frequency, earliest, seen) ==
  IF workingHours = <<>> THEN <<>>
  ELSE LET w == Head(workingHours)
           hit == /\ w.userId \notin seen
                  /\ t \in slotTimesOf(w, dayStart, eventLength, frequency, earliest)
       IN  (IF hit THEN <<w.userId>> ELSE <<>>)
           \o userIdsAt(t, Tail(workingHours), dayStart, eventLength, frequency, earliest,
                        IF hit THEN seen \cup {w.userId} ELSE seen)

\* getTimeSlots({ inviteeDate, eventLength, workingHours, minimumBookingNotice, frequency }):
\* the candidate slots of the calendar day of inviteeDate, ascending
getTimeSlots(inviteeDate, off, eventLength, workingHours, minimumBookingNotice, frequency, now) ==
  LET dayStart == startOfDay(inviteeDate, off)
      earliest == now + minimumBookingNotice
      times == UNION {slotTimesOf(workingHours[i], dayStart, eventLength, frequency, earliest) :
                        i \in DOMAIN workingHours}
      order == Ascending(times)
  IN  [i \in DOMAIN order |->
         [time |-> order[i],
          userIds |-> userIdsAt(order[i], workingHours, dayStart, eventLength, frequency,
                                earliest, {})]]

\* isTimeOutOfBounds(time, { periodType, periodStartDate, periodEndDate, periodDays })
isTimeOutOfBounds(time, off, et, now) ==
  CASE et.periodType = "ROLLING" -> format(time, off) > format(now, off) + et.periodDays
    [] et.periodType = "RANGE" -> time < et.periodStartDate \/ time > et.periodEndDate
    [] OTHER -> FALSE

----------------------------------------------------------------------------
\* getSchedule: the stages of the slot pipeline

\* const availabilityCheckProps = { eventLength: eventType.length, currentSeats }
availabilityCheckProps(et, seats) == [eventLength |-> et.length, currentSeats |-> seats]

\* fixedHostsFilter with some in place of every
fixedHostsFilterSome(generated, availabilities, props) ==
  SelectSeq(generated,
            LAMBDA slot :
              \/ \A i \in DOMAIN availabilities : ~availabilities[i].user.isFixed
              \/ \E i \in DOMAIN availabilities :
                   /\ availabilities[i].user.isFixed
                   /\ checkIfIsAvailable(slot.time, availabilities[i].busy,
                                         props.eventLength, props.currentSeats))

\* timeSlots.filter: every fixed host is available at the slot
fixedHostsFilter(generated, availabilities, props) ==
  SelectSeq(generated,
            LAMBDA slot :
              \A i \in DOMAIN availabilities :
                 availabilities[i].user.isFixed =>
                   checkIfIsAvailable(slot.time, availabilities[i].busy,
                                      props.eventLength, props.currentSeats))

\* const looseHostAvailability = userAvailability.filter(({ user: { isFixed } }) => !isFixed)
looseHostAvailability(availabilities) ==
  SelectSeq(availabilities, LAMBDA a : ~a.user.isFixed)

\* keepsUserId without the availability check of the host
keepsUserIdUnchecked(slotUserId, time, loose, props) ==
  \E i \in DOMAIN loose : loose[i].user.id = slotUserId

\* slot.userIds.filter of the loose-host stage: slotUserId stays when the first loose
\* host with that id is available at the slot
keepsUserId(slotUserId, time, loose, props) ==
  /\ \E i \in DOMAIN loose : loose[i].user.id = slotUserId
  /\ LET first == CHOOSE i \in DOMAIN loose :
                    /\ loose[i].user.id = slotUserId
                    /\ \A j \in 1..(i - 1) : loose[j].user.id # slotUserId
     IN  checkIfIsAvailable(time, loose[first].busy, props.eventLength, props.currentSeats)

\* the loose-host stage: narrows the userIds of every slot, then drops the slots left
\* with none; skipped when the event has no loose host
looseHostsFilter(available, availabilities, props) ==
  LET loose == looseHostAvailability(availabilities)
      narrowed == [i \in DOMAIN available |->
                     [available[i] EXCEPT !.userIds =
                        SelectSeq(available[i].userIds,
                                  LAMBDA id : keepsUserId(id, available[i].time, loose, props))]]
  IN  IF Len(loose) > 0
      THEN SelectSeq(narrowed, LAMBDA slot : Len(slot.userIds) > 0)
      ELSE available

\* const isTimeWithinBounds = (_time) => !isTimeOutOfBounds(_time, {...})
isTimeWithinBounds(time, off, et, now) == ~isTimeOutOfBounds(time, off, et, now)

\* boundsFilter whose result is dropped
boundsFilterDropped(available, off, et, now) == available

\* availableTimeSlots.filter((slot) => isTimeWithinBounds(slot.time))
boundsFilter(available, off, et, now) ==
  SelectSeq(available, LAMBDA slot : isTimeWithinBounds(slot.time, off, et, now))

\* (eventType.hosts ? eventType.hosts.map((host) => host.user) : eventType.users)
\*   .map((user) => user.username || "")
slotUsers(et) ==
  IF et.hosts.defined
  THEN [i \in DOMAIN et.hosts.list |-> Username(et.hosts.list[i].user)]
  ELSE [i \in DOMAIN et.users |-> Username(et.users[i])]

\* findIndexSeat that finds the last entry at the time, not the first
findIndexSeatLast(seats, time) ==
  CHOOSE i \in DOMAIN seats.list :
    /\ toISOString(seats.list[i].startTime) = toISOString(time)
    /\ \A j \in (i + 1)..Len(seats.list) :
          toISOString(seats.list[j].startTime) # toISOString(time)

\* currentSeats.findIndex((booking) => booking.startTime.toISOString() === time.toISOString())
findIndexSeat(seats, time) ==
  CHOOSE i \in DOMAIN seats.list :
    /\ toISOString(seats.list[i].startTime) = toISOString(time)
    /\ \A j \in 1..(i - 1) : toISOString(seats.list[j].startTime) # toISOString(time)

\* the object the reducer pushes for one slot
slotEntry(slot, et, seats) ==
  LET base == [time |-> toISOString(slot.time), users |-> slotUsers(et),
               userIds |-> slot.userIds]
  IN  IF someSeatAt(seats, slot.time)
      THEN [time |-> base.time, users |-> base.users, userIds |-> base.userIds,
            attendees |-> seats.list[findIndexSeat(seats, slot.time)].attendees,
            bookingUid |-> seats.list[findIndexSeat(seats, slot.time)].uid]
      ELSE base

\* pushSlot with unshift in place of push
pushSlotFront(r, key, entry) ==
  [k \in DOMAIN r \cup {key} |->
     IF k = key THEN <<entry>> \o (IF key \in DOMAIN r THEN r[key] ELSE <<>>) ELSE r[k]]

\* one step of the reducer: r[key] = r[key] || []; r[key].push(entry)
pushSlot(r, key, entry) ==
  [k \in DOMAIN r \cup {key} |->
     IF k = key THEN Append(IF key \in DOMAIN r THEN r[key] ELSE <<>>, entry) ELSE r[k]]

\* availableTimeSlots.reduce(..., Object.create(null))
RECURSIVE reduceSlots(_, _, _, _, _)
reduceSlots(r, available, off, et, seats) ==
  IF available = <<>> THEN r
  ELSE reduceSlots(pushSlot(r, format(Head(available).time, off),
                            slotEntry(Head(available), et, seats)),
                   Tail(available), off, et, seats)

\* Object.create(null)
EmptySlots == [k \in {} |-> <<>>]

----------------------------------------------------------------------------
\* getSchedule: the call, step by step

\* the locals of a call that has not started
FreshCall ==
  /\ pc = "start"
  /\ eventType = NoEventType
  /\ users = <<>>
  /\ pending = {}
  /\ userAvailability = <<>>
  /\ currentSeats = NoSeats
  /\ currentCheckedTime = 0
  /\ timeSlots = <<>>
  /\ availableTimeSlots = <<>>
  /\ slots = EmptySlots
  /\ error = NoError

\* what getRegularOrDynamicEventType resolves to, when it resolves
getRegularOrDynamicEventType(database, in) ==
  IF isDynamicBooking(in) THEN getDynamicEventType(database, in) ELSE getEventType(database, in)

\* startTime.isValid() && endTime.isValid()
timesValid(in) == in.startTime # Invalid /\ in.endTime # Invalid

Throw(code) ==
  /\ error' = code
  /\ pc' = "error"
  /\ UNCHANGED <<cancelVars, ck, input, db, eventType, users, pending, userAvailability, currentSeats,
                 currentCheckedTime, timeSlots, availableTimeSlots, slots, run, firstSlots>>

\* getDynamicEventType throws: some requested user does not allow dynamic booking
ThrowUnauthorized ==
  /\ pc = "start"
  /\ isDynamicBooking(input)
  /\ ~isDynamicAllowed(db, input)
  /\ Throw("UNAUTHORIZED")

\* if (!eventType) throw new TRPCError({ code: "NOT_FOUND" })
ThrowNotFound ==
  /\ pc = "start"
  /\ isDynamicBooking(input) => isDynamicAllowed(db, input)
  /\ ~getRegularOrDynamicEventType(db, input).found
  /\ Throw("NOT_FOUND")

\* if (!startTime.isValid() || !endTime.isValid()) throw BAD_REQUEST
ThrowBadRequest ==
  /\ pc = "start"
  /\ isDynamicBooking(input) => isDynamicAllowed(db, input)
  /\ getRegularOrDynamicEventType(db, input).found
  /\ ~timesValid(input)
  /\ Throw("BAD_REQUEST")

\* IssueFetches with the check of the range moved after the fetches: the calls are issued
\* before startTime and endTime are looked at
IssueFetchesEarly ==
  /\ pc = "start"
  /\ users = <<>>
  /\ isDynamicBooking(input) => isDynamicAllowed(db, input)
  /\ getRegularOrDynamicEventType(db, input).found
  /\ eventType' = getRegularOrDynamicEventType(db, input)
  /\ users' = usersOf(eventType')
  /\ pending' = DOMAIN users'
  /\ currentSeats' = NoSeats
  /\ pc' = IF timesValid(input) THEN "fetch" ELSE "start"
  /\ UNCHANGED <<cancelVars, ck, input, db, userAvailability, currentCheckedTime, timeSlots,
                 availableTimeSlots, slots, error, run, firstSlots>>

\* the event type resolved and the range is valid: one getUserAvailability call per user
\* is issued (Promise.all(users.map(async ...)))
IssueFetches ==
  /\ pc = "start"
  /\ isDynamicBooking(input) => isDynamicAllowed(db, input)
  /\ getRegularOrDynamicEventType(db, input).found
  /\ timesValid(input)
  /\ eventType' = getRegularOrDynamicEventType(db, input)
  /\ users' = usersOf(eventType')
  /\ pending' = DOMAIN users'
  /\ currentSeats' = NoSeats
  /\ pc' = "fetch"
  /\ UNCHANGED <<cancelVars, ck, input, db, userAvailability, currentCheckedTime, timeSlots,
                 availableTimeSlots, slots, error, run, firstSlots>>

\* the getUserAvailability call of users[i] resolves and its callback continues:
\* if (!currentSeats && _currentSeats) currentSeats = _currentSeats
FetchResolves(i) ==
  /\ pc = "fetch"
  /\ i \in pending
  /\ pending' = pending \ {i}
  /\ currentSeats' = IF ~currentSeats.defined /\ db.avail[users[i].id].currentSeats.defined
                     THEN db.avail[users[i].id].currentSeats
                     ELSE currentSeats
  /\ UNCHANGED <<cancelVars, ck, input, db, pc, eventType, users, userAvailability, currentCheckedTime,
                 timeSlots, availableTimeSlots, slots, error, run, firstSlots>>

\* what the callback of users[i] returns: { timeZone, workingHours, dateOverrides, busy, user }
availabilityOf(database, user) ==
  [user |-> user, busy |-> database.avail[user.id].busy,
   workingHours |-> database.avail[user.id].workingHours]

\* Promise.all resolves with the results in the order of users; the day loop starts
AllResolved ==
  /\ pc = "fetch"
  /\ pending = {}
  /\ userAvailability' = [i \in DOMAIN users |-> availabilityOf(db, users[i])]
  /\ timeSlots' = <<>>
  /\ currentCheckedTime' = input.startTime
  /\ pc' = "loop"
  /\ UNCHANGED <<cancelVars, ck, input, db, eventType, users, pending, currentSeats,
                 availableTimeSlots, slots, error, run, firstSlots>>

\* eventLength: input.duration || eventType.length
slotLength(in, et) == IF in.duration # 0 THEN in.duration ELSE et.length

\* frequency: eventType.slotInterval || input.duration || eventType.length
slotFrequency(in, et) == IF et.slotInterval # 0 THEN et.slotInterval ELSE slotLength(in, et)

\* one pass of the day loop: the slots of the day of currentCheckedTime are appended
DayLoop ==
  /\ pc = "loop"
  /\ isBefore(currentCheckedTime, input.endTime)
  /\ timeSlots' = timeSlots \o
                  getTimeSlots(currentCheckedTime, input.utcOffset, slotLength(input, eventType),
                               getAggregateWorkingHours(userAvailability),
                               eventType.minimumBookingNotice, slotFrequency(input, eventType),
                               db.now)
  /\ currentCheckedTime' = currentCheckedTime + DayLen
  /\ UNCHANGED <<cancelVars, ck, input, db, pc, eventType, users, pending, userAvailability, currentSeats,
                 availableTimeSlots, slots, error, run, firstSlots>>

\* the day loop ends; the fixed-host stage runs
FilterFixedHosts ==
  /\ pc = "loop"
  /\ ~isBefore(currentCheckedTime, input.endTime)
  /\ availableTimeSlots' = fixedHostsFilter(timeSlots, userAvailability,
                                            availabilityCheckProps(eventType, currentSeats))
  /\ pc' = "loose"
  /\ UNCHANGED <<cancelVars, ck, input, db, eventType, users, pending, userAvailability, currentSeats,
                 currentCheckedTime, timeSlots, slots, error, run, firstSlots>>

\* the loose-host stage
FilterLooseHosts ==
  /\ pc = "loose"
  /\ availableTimeSlots' = looseHostsFilter(availableTimeSlots, userAvailability,
                                            availabilityCheckProps(eventType, currentSeats))
  /\ pc' = "bounds"
  /\ UNCHANGED <<cancelVars, ck, input, db, eventType, users, pending, userAvailability, currentSeats,
                 currentCheckedTime, timeSlots, slots, error, run, firstSlots>>

\* the bounds stage
FilterBounds ==
  /\ pc = "bounds"
  /\ availableTimeSlots' = boundsFilter(availableTimeSlots, input.utcOffset, eventType, db.now)
  /\ pc' = "reduce"
  /\ UNCHANGED <<cancelVars, ck, input, db, eventType, users, pending, userAvailability, currentSeats,
                 currentCheckedTime, timeSlots, slots, error, run, firstSlots>>

\* ReturnSlots whose reduce has no initial value: Array.prototype.reduce throws a
\* TypeError on an empty array
ReturnSlotsNoInitial ==
  /\ pc = "reduce"
  /\ IF availableTimeSlots = <<>>
     THEN Throw("TypeError")
     ELSE /\ slots' = reduceSlots(EmptySlots, availableTimeSlots, input.utcOffset, eventType,
                                  currentSeats)
          /\ firstSlots' = IF run = 1 THEN slots' ELSE firstSlots
          /\ pc' = "done"
          /\ UNCHANGED <<cancelVars, ck, input, db, eventType, users, pending, userAvailability,
                         currentSeats, currentCheckedTime, timeSlots, availableTimeSlots,
                         error, run>>

\* the reducer runs and the call returns { slots: computedAvailableSlots }
ReturnSlots ==
  /\ pc = "reduce"
  /\ slots' = reduceSlots(EmptySlots, availableTimeSlots, input.utcOffset, eventType, currentSeats)
  /\ firstSlots' = IF run = 1 THEN slots' ELSE firstSlots
  /\ pc' = "done"
  /\ UNCHANGED <<cancelVars, ck, input, db, eventType, users, pending, userAvailability, currentSeats,
                 currentCheckedTime, timeSlots, availableTimeSlots, error, run>>

\* the same request is sent again, with the same data and the same now: a new call
\* starts with fresh locals
Repeat ==
  /\ pc = "done"
  /\ run = 1
  /\ run' = 2
  /\ pc' = "start"
  /\ eventType' = NoEventType
  /\ users' = <<>>
  /\ pending' = {}
  /\ userAvailability' = <<>>
  /\ currentSeats' = NoSeats
  /\ currentCheckedTime' = 0
  /\ timeSlots' = <<>>
  /\ availableTimeSlots' = <<>>
  /\ slots' = EmptySlots
  /\ UNCHANGED <<cancelVars, ck, input, db, error, firstSlots>>

Call ==
  \/ ThrowUnauthorized
  \/ ThrowNotFound
  \/ ThrowBadRequest
  \/ IssueFetches
  \/ \E i \in pending : FetchResolves(i)
  \/ AllResolved
  \/ DayLoop
  \/ FilterFixedHosts
  \/ FilterLooseHosts
  \/ FilterBounds
  \/ ReturnSlots

----------------------------------------------------------------------------
\* cancelMigrunBooking: values

BookingIds == 1..MaxBookings

\* the id of the booking the request names (bookingToDelete)
BookingToDelete == 1

\* a booking row of the recurring event: future is startTime >= new Date(), calendarRef
\* is whether its references hold one of a "_calendar" type
BookingRow(future, calendarRef) == [future |-> future, calendarRef |-> calendarRef]

\* the promise of a deletion that has been issued: calendar.deleteEvent ("calendar"),
\* deleteMeeting ("video") or prisma deleteMany ("prisma")
Deletion(kind, booking) == [kind |-> kind, booking |-> booking, state |-> "pending"]

\* a call of the async forEach callback: the updatedBookings index it is at and the
\* promise it awaits
Callback(state, at, waiting) == [state |-> state, at |-> at, waiting |-> waiting]

\* bookingToDelete.eventType?.recurringEvent && bookingToDelete.recurringEventId &&
\* allRemainingBookings
isRecurringAll(req) == req.recurring /\ req.allRemainingBookings

\* the rows updateMany and findMany select: recurringEventId and startTime >= new Date()
remainingInstances(req) == {b \in BookingIds : req.bookings[b].future}

\* the rows the awaited update marks CANCELLED
cancelTargets(req) ==
  IF isRecurringAll(req) THEN remainingInstances(req) ELSE {BookingToDelete}

\* credentials of a "_video" type, after FAKE_DAILY_CREDENTIAL has been pushed
videoCredentialsOf(req) == req.videoCredentials + (IF req.daily THEN 1 ELSE 0)

\* for (const updBooking of updatedBookings): the first index from `from` on whose
\* booking has a calendar reference, 0 when there is none
nextWithRef(req, updated, from) ==
  LET hits == {i \in from..Len(updated) : req.bookings[updated[i]].calendarRef}
  IN  IF hits = {} THEN 0 ELSE CHOOSE i \in hits : \A j \in hits : i <= j

\* the deleteEvent promises pushed onto apiDeletes by the calendar branch
calendarPushed(req) ==
  CASE req.calendarRef = "credential" /\ ~isRecurringAll(req) ->
         <<Deletion("calendar", BookingToDelete)>>
    [] req.calendarRef = "legacy" ->
         [k \in 1..req.calendarCredentials |-> Deletion("calendar", BookingToDelete)]
    [] OTHER -> <<>>

\* the deleteMeeting promises pushed onto apiDeletes by the video branch
videoPushed(req) ==
  CASE req.videoRef = "credential" -> <<Deletion("video", BookingToDelete)>>
    [] req.videoRef = "orphan" -> <<>>
    [] OTHER -> [k \in 1..videoCredentialsOf(req) |-> Deletion("video", BookingToDelete)]

\* const prismaPromises = [attendeeDeletes, bookingReferenceDeletes]
prismaPromises == <<Deletion("prisma", BookingToDelete), Deletion("prisma", BookingToDelete)>>

----------------------------------------------------------------------------
\* cancelMigrunBooking: the call, step by step

\* the handler answers, or throws, and the call ends
Answer(code) ==
  /\ response' = code
  /\ cpc' = "done"
  /\ UNCHANGED <<ck, pipelineVars, creq, bookingStatus, updatedBookings, promises, callbacks,
                 apiDeletes, awaited>>

\* handler: the method is not DELETE
NotDelete ==
  /\ cpc = "start"
  /\ creq.method # "DELETE"
  /\ Answer("404")

\* req.query.key !== process.env.MIGRUN_INTEGRATION_KEY
Unauthorized ==
  /\ cpc = "start"
  /\ creq.method = "DELETE"
  /\ ~creq.keyOk
  /\ Answer("401")

\* the booking or its user is missing, or the booking is in the past: HttpError 400
RejectBooking ==
  /\ cpc = "start"
  /\ creq.method = "DELETE"
  /\ creq.keyOk
  /\ creq.lookup # "ok"
  /\ Answer("HttpError")

\* CancelBookings that does not wait for the update: the rows are not CANCELLED yet
\* when the handler goes on
CancelBookingsNotAwaited ==
  /\ cpc = "start"
  /\ creq.method = "DELETE"
  /\ creq.keyOk
  /\ creq.lookup = "ok"
  /\ updatedBookings' = SortedIds(cancelTargets(creq))
  /\ cpc' = "cancelled"
  /\ UNCHANGED <<ck, pipelineVars, creq, bookingStatus, promises, callbacks, apiDeletes,
                 awaited, response>>

\* await prisma.booking.updateMany / update: the rows are marked CANCELLED and read back
CancelBookings ==
  /\ cpc = "start"
  /\ creq.method = "DELETE"
  /\ creq.keyOk
  /\ creq.lookup = "ok"
  /\ bookingStatus' = [b \in BookingIds |->
                         IF b \in cancelTargets(creq) THEN "CANCELLED" ELSE bookingStatus[b]]
  /\ updatedBookings' = SortedIds(cancelTargets(creq))
  /\ cpc' = "cancelled"
  /\ UNCHANGED <<ck, pipelineVars, creq, promises, callbacks, apiDeletes, awaited, response>>

\* the awaited update rejects: the handler throws with nothing changed
UpdateRejects ==
  /\ cpc = "start"
  /\ creq.method = "DELETE"
  /\ creq.keyOk
  /\ creq.lookup = "ok"
  /\ Answer("rejected")

\* the synchronous code from `const apiDeletes = []` to `await Promise.all(...)`: the
\* async forEach callbacks start and run to their first await, the other deletions are
\* issued and pushed, and the array as it is now is handed to Promise.all
IssueDeletes ==
  /\ cpc = "cancelled"
  /\ LET n == IF creq.calendarRef = "credential" /\ isRecurringAll(creq)
              THEN creq.calendarCredentials ELSE 0
         first == nextWithRef(creq, updatedBookings, 1)
         started == IF first = 0 THEN <<>>
                    ELSE [k \in 1..n |-> Deletion("calendar", updatedBookings[first])]
         pushed == calendarPushed(creq) \o videoPushed(creq)
     IN  /\ promises' = started \o pushed \o prismaPromises
         /\ callbacks' = [k \in 1..n |->
                            IF first = 0 THEN Callback("done", 0, 0)
                            ELSE Callback("waiting", first, k)]
         /\ apiDeletes' = [i \in 1..Len(pushed) |->
                             [promise |-> Len(started) + i, resolved |-> FALSE]]
         /\ awaited' = (Len(started) + 1)..(Len(started) + Len(pushed) + Len(prismaPromises))
  /\ cpc' = "await"
  /\ UNCHANGED <<ck, pipelineVars, creq, bookingStatus, updatedBookings, response>>

\* the deletion of promise p completes
DeletionSucceeds(p) ==
  /\ promises[p].state = "pending"
  /\ promises' = [promises EXCEPT ![p].state = "fulfilled"]
  /\ UNCHANGED <<ck, pipelineVars, creq, cpc, bookingStatus, updatedBookings, callbacks,
                 apiDeletes, awaited, response>>

\* the deletion of promise p fails
DeletionFails(p) ==
  /\ promises[p].state = "pending"
  /\ promises' = [promises EXCEPT ![p].state = "rejected"]
  /\ UNCHANGED <<ck, pipelineVars, creq, cpc, bookingStatus, updatedBookings, callbacks,
                 apiDeletes, awaited, response>>

\* callback k resumes after `await calendar?.deleteEvent(...)`: it pushes the value and
\* goes on to the next booking with a calendar reference, issuing its deletion
CallbackContinues(k) ==
  /\ callbacks[k].state = "waiting"
  /\ promises[callbacks[k].waiting].state = "fulfilled"
  /\ apiDeletes' = Append(apiDeletes, [promise |-> callbacks[k].waiting, resolved |-> TRUE])
  /\ LET next == nextWithRef(creq, updatedBookings, callbacks[k].at + 1)
     IN  IF next = 0
         THEN /\ callbacks' = [callbacks EXCEPT ![k] = Callback("done", 0, 0)]
              /\ promises' = promises
         ELSE /\ promises' = Append(promises, Deletion("calendar", updatedBookings[next]))
              /\ callbacks' = [callbacks EXCEPT ![k] = Callback("waiting", next, Len(promises) + 1)]
  /\ UNCHANGED <<ck, pipelineVars, creq, cpc, bookingStatus, updatedBookings, awaited, response>>

\* the deletion callback k awaits has failed: the callback's promise rejects, and nothing
\* holds that promise
CallbackRejects(k) ==
  /\ callbacks[k].state = "waiting"
  /\ promises[callbacks[k].waiting].state = "rejected"
  /\ callbacks' = [callbacks EXCEPT ![k].state = "rejected"]
  /\ UNCHANGED <<ck, pipelineVars, creq, cpc, bookingStatus, updatedBookings, promises,
                 apiDeletes, awaited, response>>

\* Promise.all fulfils: res.status(200).json({ message: "Booking deleted" })
Respond200 ==
  /\ cpc = "await"
  /\ \A p \in awaited : promises[p].state = "fulfilled"
  /\ Answer("200")

\* Promise.all rejects with the first rejection: the handler throws
RespondRejected ==
  /\ cpc = "await"
  /\ \E p \in awaited : promises[p].state = "rejected"
  /\ Answer("rejected")

Cancel ==
  \/ NotDelete
  \/ Unauthorized
  \/ RejectBooking
  \/ CancelBookings
  \/ UpdateRejects
  \/ IssueDeletes
  \/ \E p \in DOMAIN promises : DeletionSucceeds(p)
  \/ \E p \in DOMAIN promises : DeletionFails(p)
  \/ \E k \in DOMAIN callbacks : CallbackContinues(k)
  \/ \E k \in DOMAIN callbacks : CallbackRejects(k)
  \/ Respond200
  \/ RespondRejected

\* the locals of a call that has not started
FreshCancel ==
  /\ updatedBookings = <<>>
  /\ promises = <<>>
  /\ callbacks = <<>>
  /\ apiDeletes = <<>>
  /\ awaited = {}
  /\ response = "none"

CancelRequest(method, keyOk, lookup, allRemainingBookings, recurring, calendar, video, bookings) ==
  [method |-> method, keyOk |-> keyOk, lookup |-> lookup,
   allRemainingBookings |-> allRemainingBookings, recurring |-> recurring,
   calendarRef |-> calendar[1], calendarCredentials |-> calendar[2],
   videoRef |-> video[1], videoCredentials |-> video[2], daily |-> video[3],
   bookings |-> bookings]

\* <<the booking's calendar reference, the organizer's calendar credentials>>: the
\* reference is absent ("none"), names a credential of the organizer ("credential"),
\* names a credential the organizer no longer has ("orphan") or has no credentialId
\* ("legacy")
CalendarChoices ==
  { <<"none", 1>>, <<"credential", 1>>, <<"credential", 2>>, <<"orphan", 1>>,
    <<"legacy", 0>>, <<"legacy", 2>> }

\* <<the booking's video reference, the organizer's video credentials, location is Daily>>
VideoChoices ==
  { <<"none", 0, FALSE>>, <<"none", 0, TRUE>>, <<"credential", 1, FALSE>>,
    <<"orphan", 1, FALSE>>, <<"legacy", 1, FALSE>> }

\* the rows of the other bookings of the recurring event
RowChoices == {BookingRow(TRUE, TRUE), BookingRow(TRUE, FALSE), BookingRow(FALSE, TRUE)}

\* a request with no booking rows behind it
PlainRequest(method, keyOk, lookup) ==
  CancelRequest(method, keyOk, lookup, FALSE, FALSE, <<"none", 0>>, <<"none", 0, FALSE>>,
                [b \in BookingIds |-> BookingRow(TRUE, FALSE)])

\* the rows of the recurring event when the named booking has, or has not, a calendar
\* reference
BookingsFor(hasRef) ==
  {f \in [BookingIds -> RowChoices \cup {BookingRow(TRUE, hasRef)}] :
     /\ f[BookingToDelete] = BookingRow(TRUE, hasRef)
     /\ \A b \in BookingIds \ {BookingToDelete} : f[b] \in RowChoices}

CancelWorlds ==
  UNION { { CancelRequest("DELETE", TRUE, "ok", all, recurring, calendar, video, bookings) :
              all \in BOOLEAN, recurring \in BOOLEAN, video \in VideoChoices,
              bookings \in BookingsFor(calendar[1] # "none") } :
          calendar \in CalendarChoices }
  \cup { PlainRequest("GET", TRUE, "ok"), PlainRequest("DELETE", FALSE, "ok"),
         PlainRequest("DELETE", TRUE, "missing"), PlainRequest("DELETE", TRUE, "past"),
         PlainRequest("DELETE", TRUE, "nouser") }

\* no cancellation is running
NoCancel ==
  /\ creq = PlainRequest("DELETE", TRUE, "ok")
  /\ cpc = "idle"
  /\ bookingStatus = [b \in BookingIds |-> "ACCEPTED"]
  /\ FreshCancel

----------------------------------------------------------------------------
\* Requests and data the calls are checked on

Request(startTime, endTime, utcOffset, eventTypeId, usernameList, duration) ==
  [startTime |-> startTime, endTime |-> endTime, utcOffset |-> utcOffset,
   eventTypeId |-> eventTypeId, eventTypeSlug |-> 0, usernameList |-> usernameList,
   duration |-> duration]

Host(isFixed, user) == [isFixed |-> isFixed, user |-> user]

\* an event type row: team is <<schedulingType, users, hosts>>, shape is
\* <<length, slotInterval, minimumBookingNotice>>, period is
\* <<periodType, periodStartDate, periodEndDate, periodDays>>
EventTypeRow(team, shape, period) ==
  [found |-> TRUE, schedulingType |-> team[1], users |-> team[2], hosts |-> team[3],
   length |-> shape[1], slotInterval |-> shape[2], minimumBookingNotice |-> shape[3],
   periodType |-> period[1], periodStartDate |-> period[2], periodEndDate |-> period[3],
   periodDays |-> period[4]]

Availability(busy, seats, workingHours) ==
  [busy |-> busy, currentSeats |-> seats, workingHours |-> workingHours]

Interval(s, e) == [start |-> s, end |-> e]

WholeDay == <<Interval(0, DayLen)>>
LateStart == <<Interval(1, DayLen)>>

\* every user exists and allows dynamic booking
AllUsers == [u \in UserIds |-> [exists |-> TRUE, allowDynamicBooking |-> TRUE]]

FreeHost == Availability(<<>>, NoSeats, WholeDay)

World(in, row, people, avail, now) ==
  [input |-> in, db |-> [eventTypeRow |-> row, users |-> people, avail |-> avail, now |-> now]]

Unlimited == <<"UNLIMITED", 0, 0, 0>>

\* Two hosts, one day: the hosts' roles, busy times, seats and working hours vary
TeamChoices ==
  { <<"null", <<1, 2>>, Defined(<<>>)>>,
    <<"COLLECTIVE", <<1, 2>>, Defined(<<>>)>>,
    <<"ROUND_ROBIN", <<1, 2>>, Defined(<<Host(TRUE, 1), Host(FALSE, 2)>>)>>,
    <<"ROUND_ROBIN", <<1, 2>>, Defined(<<Host(FALSE, 1), Host(FALSE, 2)>>)>>,
    <<"ROUND_ROBIN", <<2, 1>>, Defined(<<>>)>> }

BusyChoices == { <<>>, <<Interval(0, 1)>>, <<Interval(1, DayLen)>> }

SeatChoices ==
  { NoSeats,
    Defined(<<Seat(0, 1, 3)>>),
    Defined(<<Seat(1, 2, 1), Seat(1, 3, 2)>>) }

\* <<length, slotInterval, requested duration>>
LengthChoices == { <<1, 0, 0>>, <<2, 1, 0>>, <<1, 1, 2>>, <<2, 0, 1>> }

PeriodChoices == { Unlimited, <<"RANGE", 1, DayLen, 0>> }

HostWorlds ==
  { World(Request(0, DayLen, 0, 1, Undefined, l[3]),
          EventTypeRow(team, <<l[1], l[2], 0>>, period),
          AllUsers,
          [u \in UserIds |-> IF u = 1 THEN Availability(a[1], a[2], WholeDay)
                                      ELSE Availability(b[1], b[2], b[3])],
          0) :
      team \in TeamChoices, l \in LengthChoices, period \in PeriodChoices,
      a \in BusyChoices \X SeatChoices,
      b \in BusyChoices \X SeatChoices \X {WholeDay, LateStart} }

\* One host: the requested range, the time zone, the notice and the period vary
WindowWorlds ==
  { World(Request(st, en, off, 1, Undefined, l[3]),
          EventTypeRow(<<"null", <<1>>, Defined(<<>>)>>, <<l[1], l[2], notice>>, period),
          AllUsers,
          [u \in UserIds |-> Availability(busy, NoSeats, wh)],
          1) :
      st \in 0..(MaxDays * DayLen - 1), en \in 0..(MaxDays * DayLen), off \in {0, 1},
      l \in {<<1, 0, 0>>, <<2, 1, 0>>, <<1, 0, 2>>}, notice \in {0, 1},
      period \in {Unlimited, <<"ROLLING", 0, 0, 0>>},
      busy \in {<<>>, <<Interval(1, 2)>>}, wh \in {WholeDay, LateStart} }

\* Requests that end in an error, and dynamic bookings
EdgeWorlds ==
  LET row == EventTypeRow(<<"null", <<1>>, Defined(<<>>)>>, <<1, 0, 0>>, Unlimited)
      free == [u \in UserIds |-> FreeHost]
  IN  { World(Request(Invalid, DayLen, 0, 1, Undefined, 0), row, AllUsers, free, 0),
        World(Request(0, Invalid, 0, 1, Undefined, 0), row, AllUsers, free, 0),
        World(Request(0, DayLen, 0, 1, Undefined, 0), NoEventType, AllUsers, free, 0),
        World(Request(0, DayLen, 0, 0, Defined(<<Username(1), Username(2)>>), 0),
              NoEventType, AllUsers, free, 0),
        World(Request(0, DayLen, 0, 0, Defined(<<Username(1), Username(2)>>), 0),
              NoEventType, [AllUsers EXCEPT ![2].allowDynamicBooking = FALSE], free, 0),
        World(Request(0, DayLen, 0, 0, Defined(<<Username(1), Username(2)>>), 0),
              NoEventType, [AllUsers EXCEPT ![2].exists = FALSE], free, 0),
        World(Request(0, DayLen, 0, 0, Defined(<<Username(1)>>), 0),
              NoEventType, [u \in UserIds |-> [exists |-> FALSE, allowDynamicBooking |-> TRUE]],
              free, 0),
        World(Request(Invalid, DayLen, 0, 0, Defined(<<Username(1)>>), 0),
              NoEventType, AllUsers, free, 0) }

\* checkIfIsAvailable is not being applied on its own
NoCheck == [args |-> [time |-> 0, busy |-> <<>>, eventLength |-> 1, currentSeats |-> NoSeats],
            called |-> TRUE, result |-> TRUE]

InitCall(worlds) ==
  /\ \E w \in worlds : input = w.input /\ db = w.db
  /\ FreshCall
  /\ run = 1
  /\ firstSlots = EmptySlots
  /\ ck = NoCheck
  /\ NoCancel

----------------------------------------------------------------------------
\* Specifications

\* getSchedule on two hosts over one day
Init == InitCall(HostWorlds \cup EdgeWorlds)
Next == Call
Spec == Init /\ [][Next]_vars

\* getSchedule on one host over every range of the first days
InitWindow == InitCall(WindowWorlds \cup EdgeWorlds)
SpecWindow == InitWindow /\ [][Next]_vars

\* checkIfIsAvailable on every argument within the bounds
InitAvail ==
  /\ InitCheck
  /\ input = Request(0, 0, 0, 1, Undefined, 0)
  /\ db = [eventTypeRow |-> NoEventType, users |-> AllUsers,
           avail |-> [u \in UserIds |-> FreeHost], now |-> 0]
  /\ FreshCall
  /\ run = 1
  /\ firstSlots = EmptySlots
  /\ NoCancel
NextAvail == Check /\ UNCHANGED <<pipelineVars, cancelVars>>
SpecAvail == InitAvail /\ [][NextAvail]_vars

\* cancelMigrunBooking on every request of CancelWorlds; no getSchedule call is running
InitCancel ==
  /\ creq \in CancelWorlds
  /\ cpc = "start"
  /\ bookingStatus = [b \in BookingIds |-> "ACCEPTED"]
  /\ FreshCancel
  /\ input = Request(0, 0, 0, 1, Undefined, 0)
  /\ db = [eventTypeRow |-> NoEventType, users |-> AllUsers,
           avail |-> [u \in UserIds |-> FreeHost], now |-> 0]
  /\ FreshCall
  /\ run = 1
  /\ firstSlots = EmptySlots
  /\ ck = NoCheck
NextCancel == Cancel
SpecCancel == InitCancel /\ [][NextCancel]_vars

----------------------------------------------------------------------------
\* Properties of checkIfIsAvailable (checked under SpecAvail)

\* the half-open windows [s1, e1) and [s2, e2) overlap
Overlaps(s1, e1, s2, e2) == s1 < e2 /\ e1 > s2

\* C2: with no currentSeats entry at the slot's time, checkIfIsAvailable returns false
\* exactly when some busy interval b has slot.start < b.end and slot.start + length > b.start
C2_UnavailableIffOverlap ==
  (ck.called /\ ~someSeatAt(ck.args.currentSeats, ck.args.time)) =>
     (ck.result = FALSE <=>
        \E i \in DOMAIN ck.args.busy :
           Overlaps(ck.args.time, ck.args.time + ck.args.eventLength,
                    ck.args.busy[i].start, ck.args.busy[i].end))

\* busy [0, 2) and a slot of length 2 at 1 (the 10:00-10:30 / 10:15 case): unavailable
C2_Witness ==
  /\ ck.called
  /\ ck.args.busy = <<Interval(0, 2)>>
  /\ ck.args.time = 1
  /\ ck.args.eventLength = 2
  /\ ck.args.currentSeats = NoSeats
  /\ ck.result = FALSE

\* C3: back-to-back is available: when every busy interval either ends exactly at the
\* slot's start or starts exactly at the slot's end, checkIfIsAvailable returns true
C3_BackToBackAvailable ==
  (/\ ck.called
   /\ \A i \in DOMAIN ck.args.busy :
         \/ ck.args.busy[i].end = ck.args.time
         \/ ck.args.busy[i].start = ck.args.time + ck.args.eventLength)
  => ck.result = TRUE

\* a slot [1, 2) between a busy interval that ends at 1 and one that starts at 2
C3_Witness ==
  /\ ck.called
  /\ ck.args.busy = <<Interval(0, 1), Interval(2, 3)>>
  /\ ck.args.time = 1
  /\ ck.args.eventLength = 1
  /\ ck.args.currentSeats = NoSeats
  /\ ck.result = TRUE

----------------------------------------------------------------------------
\* Properties of getSchedule

\* the call has returned its slots mapping
Returned == pc = "done"

\* the slot objects of the returned mapping
EmittedSlots == UNION {{slots[k][i] : i \in DOMAIN slots[k]} : k \in DOMAIN slots}

\* some returned slot has time t
EmittedAt(t) == \E k \in DOMAIN slots : \E i \in DOMAIN slots[k] : slots[k][i].time = t

\* the generator produced a slot at t
GeneratedAt(t) == \E i \in DOMAIN timeSlots : timeSlots[i].time = t

FixedHostIds == {users[i].id : i \in {j \in DOMAIN users : users[j].isFixed}}
LooseHostIds == {users[i].id : i \in {j \in DOMAIN users : ~users[j].isFixed}}

\* some busy interval of host u overlaps the window [t, t + length)
BusyOverlaps(u, t, length) ==
  \E i \in DOMAIN db.avail[u].busy :
     Overlaps(t, t + length, db.avail[u].busy[i].start, db.avail[u].busy[i].end)

\* C1: every returned slot lies in [startTime, endTime)
C1_SlotsWithinRange ==
  Returned =>
    \A k \in DOMAIN slots : \A i \in DOMAIN slots[k] :
       input.startTime <= slots[k][i].time /\ slots[k][i].time < input.endTime

\* host u passes the availability check the pipeline applies at t
HostAvailableAt(u, t) ==
  checkIfIsAvailable(t, db.avail[u].busy, eventType.length, currentSeats)

C5_LooseHostNarrowing ==
  (Returned /\ LooseHostIds # {}) =>
    \A e \in EmittedSlots :
       /\ Len(e.userIds) > 0
       /\ \E i \in DOMAIN timeSlots :
             /\ timeSlots[i].time = e.time
             /\ e.userIds = SelectSeq(timeSlots[i].userIds,
                                      LAMBDA id : id \in LooseHostIds /\ HostAvailableAt(id, e.time))

\* two loose hosts generated for a slot, host 1 busy at it: returned with userIds <<2>>
C5_Witness ==
  /\ Returned
  /\ LooseHostIds = {1, 2}
  /\ \E i \in DOMAIN timeSlots :
        /\ timeSlots[i].userIds = <<1, 2>>
        /\ ~HostAvailableAt(1, timeSlots[i].time)
        /\ \E e \in EmittedSlots : e.time = timeSlots[i].time /\ e.userIds = <<2>>

\* the generated slot names a loose host of the event
NamesLooseHost(slot) == \E j \in DOMAIN slot.userIds : slot.userIds[j] \in LooseHostIds

\* C6 as stated: every generated slot within bounds whose time has a currentSeats
\* entry is returned
C6_SeatSlotEmitted ==
  Returned =>
    \A i \in DOMAIN timeSlots :
       (/\ someSeatAt(currentSeats, timeSlots[i].time)
        /\ isTimeWithinBounds(timeSlots[i].time, input.utcOffset, eventType, db.now))
       => EmittedAt(timeSlots[i].time)

\* C6: a currentSeats entry at the slot's time makes every host pass the availability
\* check whatever its busy intervals; the generated slot, when within bounds, is
\* returned, provided it names a loose host when the event has loose hosts
C6_SeatBypass ==
  Returned =>
    \A i \in DOMAIN timeSlots :
       someSeatAt(currentSeats, timeSlots[i].time) =>
         /\ \A k \in DOMAIN users : HostAvailableAt(users[k].id, timeSlots[i].time)
         /\ (/\ isTimeWithinBounds(timeSlots[i].time, input.utcOffset, eventType, db.now)
             /\ LooseHostIds # {} => NamesLooseHost(timeSlots[i]))
            => EmittedAt(timeSlots[i].time)

\* a fixed host is busy for the whole slot, a seat entry is at the slot's time, and the
\* slot is returned
C6_Witness ==
  /\ Returned
  /\ \E i \in DOMAIN timeSlots : \E u \in FixedHostIds : \E b \in DOMAIN db.avail[u].busy :
        /\ someSeatAt(currentSeats, timeSlots[i].time)
        /\ db.avail[u].busy[b].start <= timeSlots[i].time
        /\ db.avail[u].busy[b].end >= timeSlots[i].time + slotLength(input, eventType)
        /\ EmittedAt(timeSlots[i].time)

\* the indexes of the currentSeats entries at instant t
SeatIndexesAt(t) == {i \in DOMAIN currentSeats.list : currentSeats.list[i].startTime = t}

\* C7: a returned slot carries attendees and bookingUid exactly when a currentSeats
\* entry is at its time, and both come from the first such entry
C7_SeatAnnotation ==
  Returned =>
    \A e \in EmittedSlots :
       IF currentSeats.defined /\ SeatIndexesAt(e.time) # {}
       THEN LET first == CHOOSE i \in SeatIndexesAt(e.time) :
                           \A j \in SeatIndexesAt(e.time) : i <= j
            IN  /\ {"attendees", "bookingUid"} \subseteq DOMAIN e
                /\ e.attendees = currentSeats.list[first].attendees
                /\ e.bookingUid = currentSeats.list[first].uid
       ELSE {"attendees", "bookingUid"} \cap DOMAIN e = {}

\* two seat entries at the same time: the returned slot carries the first one's values,
\* and another returned slot carries none
C7_Witness ==
  /\ Returned
  /\ currentSeats = Defined(<<Seat(1, 2, 1), Seat(1, 3, 2)>>)
  /\ \E e \in EmittedSlots :
        /\ "attendees" \in DOMAIN e
        /\ e.time = 1 /\ e.attendees = 1 /\ e.bookingUid = 2
  /\ \E e \in EmittedSlots : "attendees" \notin DOMAIN e

\* the generated slot passes the fixed-host and the loose-host stage
PassesAvailability(slot) ==
  /\ \A u \in FixedHostIds : HostAvailableAt(u, slot.time)
  /\ LooseHostIds # {} =>
       \E j \in DOMAIN slot.userIds :
          slot.userIds[j] \in LooseHostIds /\ HostAvailableAt(slot.userIds[j], slot.time)

\* C8: the returned slots are exactly the generated slots that pass the availability
\* stages and are within the period bounds
C8_BoundsFinalGate ==
  Returned =>
    /\ \A i \in DOMAIN timeSlots :
          EmittedAt(timeSlots[i].time) <=>
            /\ PassesAvailability(timeSlots[i])
            /\ isTimeWithinBounds(timeSlots[i].time, input.utcOffset, eventType, db.now)
    /\ \A e \in EmittedSlots : GeneratedAt(e.time)

\* a slot that passes availability only through its seat entry is out of bounds and is
\* not returned
C8_Witness ==
  /\ Returned
  /\ \E i \in DOMAIN timeSlots : \E u \in FixedHostIds :
        /\ someSeatAt(currentSeats, timeSlots[i].time)
        /\ BusyOverlaps(u, timeSlots[i].time, eventType.length)
        /\ PassesAvailability(timeSlots[i])
        /\ ~isTimeWithinBounds(timeSlots[i].time, input.utcOffset, eventType, db.now)
        /\ ~EmittedAt(timeSlots[i].time)

\* C9: every returned slot is filed under the date of its own time; each day's list is
\* strictly ascending and keeps the order of generation, without repeats
C9_DayKeysAndOrder ==
  Returned =>
    /\ \A k \in DOMAIN slots : \A i \in DOMAIN slots[k] :
          /\ format(slots[k][i].time, input.utcOffset) = k
          /\ \A j \in DOMAIN slots[k] :
                i < j =>
                  /\ slots[k][i].time < slots[k][j].time
                  /\ \E a \in DOMAIN timeSlots : \E b \in DOMAIN timeSlots :
                        /\ a < b
                        /\ timeSlots[a].time = slots[k][i].time
                        /\ timeSlots[b].time = slots[k][j].time
    /\ \A a \in DOMAIN timeSlots : \A b \in DOMAIN timeSlots :
          a < b => timeSlots[a].time < timeSlots[b].time

\* slots on two days, one day with at least two slots, in a zone away from UTC
C9_Witness ==
  /\ Returned
  /\ input.utcOffset = 1
  /\ Cardinality(DOMAIN slots) >= 2
  /\ \E k \in DOMAIN slots : Len(slots[k]) >= 2

\* C10: the repeated call returns the same mapping as the first
C10_Idempotent == (Returned /\ run = 2) => slots = firstSlots

\* the call threw
Threw == error # NoError

\* C11: when getSchedule throws NOT_FOUND, UNAUTHORIZED or BAD_REQUEST, no
\* getUserAvailability call has been issued, no slot has been generated or filtered and
\* no slots mapping, not even a partial one, is returned
C11_ErrorsBeforeFetches ==
  Threw =>
    /\ error \in {"NOT_FOUND", "UNAUTHORIZED", "BAD_REQUEST"}
    /\ pc = "error"
    /\ users = <<>>
    /\ pending = {}
    /\ userAvailability = <<>>
    /\ timeSlots = <<>>
    /\ availableTimeSlots = <<>>
    /\ slots = EmptySlots

\* the event type resolves to an event with a host, the range is invalid: BAD_REQUEST
\* is thrown with nothing fetched
C11_Witness ==
  /\ error = "BAD_REQUEST"
  /\ Len(usersOf(getRegularOrDynamicEventType(db, input))) > 0
  /\ users = <<>>

\* no user named in usernameList exists
NoRequestedUserExists ==
  /\ input.usernameList.defined
  /\ Len(input.usernameList.list) > 0
  /\ findManyUsers(db, input) = <<>>

\* C12: once the call has left its start, it has thrown NOT_FOUND and returns no mapping
\* when the event type of eventTypeId does not exist, and also when the booking is
\* dynamic and none of the users named in usernameList exists
C12_NotFound ==
  (/\ pc # "start"
   /\ \/ ~isDynamicBooking(input) /\ ~getEventType(db, input).found
      \/ isDynamicBooking(input) /\ NoRequestedUserExists)
  => (error = "NOT_FOUND" /\ pc = "error" /\ slots = EmptySlots)

\* the elements of a list
Range(l) == {l[i] : i \in DOMAIN l}

\* C13: the users of every returned slot are the usernames of the event's declared
\* hosts when the event is not dynamic, and all usernames of usernameList when it is
C13_SlotUsers ==
  Returned =>
    \A e \in EmittedSlots :
       IF isDynamicBooking(input)
       THEN Range(e.users) = Range(input.usernameList.list)
       ELSE e.users = [i \in DOMAIN eventType.hosts.list |-> Username(eventType.hosts.list[i].user)]

\* the passes the day loop has made
LoopPasses == (currentCheckedTime - input.startTime) \div DayLen

\* the stages of getSchedule after the fixed-host stage
StageStep == FilterLooseHosts \/ FilterBounds \/ ReturnSlots

\* C14: once the event type has resolved and the range is valid the call throws nothing;
\* after the fetches it has either returned its mapping or its next step can be taken
\* (in the day loop: another pass, or the first stage when the loop condition fails),
\* and the day loop never makes a pass at or beyond endTime, so it ends
C14_PipelineTotal ==
  eventType # NoEventType =>
    /\ ~Threw
    /\ pc \in {"fetch", "loop", "loose", "bounds", "reduce", "done"}
    /\ pc = "loop" =>
         isBefore(currentCheckedTime, input.endTime) \/ ENABLED FilterFixedHosts
    /\ pc \in {"loose", "bounds", "reduce"} => ENABLED StageStep
    /\ pc \in {"loop", "loose", "bounds", "reduce", "done"} =>
         /\ LoopPasses >= 0
         /\ LoopPasses > 0 => currentCheckedTime - DayLen < input.endTime

\* a range that ends before it starts: the call returns the empty mapping
C14_Witness ==
  /\ Returned
  /\ input.endTime < input.startTime
  /\ timeSlots = <<>>
  /\ slots = EmptySlots

\* C15: with a requested duration d, a slot at t with no currentSeats entry is returned
\* only if no busy interval of a fixed host overlaps [t, t + d)
C15_CheckUsesRequestedDuration ==
  (Returned /\ input.duration # 0) =>
    \A e \in EmittedSlots : \A u \in FixedHostIds :
       ~someSeatAt(currentSeats, e.time) => ~BusyOverlaps(u, e.time, input.duration)

\* the currentSeats the call holds when the fetches resolve in the order of users: the
\* first defined answer
RECURSIVE firstDefinedSeats(_)
firstDefinedSeats(hosts) ==
  IF hosts = <<>> THEN NoSeats
  ELSE IF db.avail[Head(hosts).id].currentSeats.defined
       THEN db.avail[Head(hosts).id].currentSeats
       ELSE firstDefinedSeats(Tail(hosts))

\* what the stages after the day loop return when the call holds seats
scheduleWith(seats) ==
  LET props == availabilityCheckProps(eventType, seats)
      fixed == fixedHostsFilter(timeSlots, userAvailability, props)
      loose == looseHostsFilter(fixed, userAvailability, props)
      bound == boundsFilter(loose, input.utcOffset, eventType, db.now)
  IN  reduceSlots(EmptySlots, bound, input.utcOffset, eventType, seats)

\* C16: whatever the order the fetches resolved in, the call returns what it returns
\* when they resolve in the order of users
C16_OrderIndependent == Returned => slots = scheduleWith(firstDefinedSeats(users))

\* the calendar days handed to getTimeSlots
RequestedDays ==
  {format(input.startTime + k * DayLen, input.utcOffset) : k \in 0..(LoopPasses - 1)}

\* the calendar days that intersect [startTime, endTime)
WindowDays ==
  IF input.startTime < input.endTime
  THEN format(input.startTime, input.utcOffset)..format(input.endTime - 1, input.utcOffset)
  ELSE {}

\* C18: the days handed to getTimeSlots are the calendar days that intersect
\* [startTime, endTime), each one once
C18_EveryDayOnce ==
  Returned =>
    /\ RequestedDays = WindowDays
    /\ Cardinality(RequestedDays) = LoopPasses

----------------------------------------------------------------------------
\* getSchedule called twice with the same request and data
NextRepeat == Call \/ Repeat
SpecRepeat == Init /\ [][NextRepeat]_vars

----------------------------------------------------------------------------
\* Properties of cancelMigrunBooking (checked under SpecCancel)

\* the calendar and video deletions issued so far
ExternalDeletions == {p \in DOMAIN promises : promises[p].kind \in {"calendar", "video"}}

\* C17: whenever a calendar or video deletion has been issued, the booking (on the
\* recurring path with allRemainingBookings, every instance that starts now or later)
\* is CANCELLED, and it is still CANCELLED after a deletion has failed
C17_CancelledBeforeDeletions ==
  ExternalDeletions # {} =>
    \A b \in cancelTargets(creq) : bookingStatus[b] = "CANCELLED"

\* the recurring path with two remaining instances: a calendar deletion has failed and
\* both instances are CANCELLED
C17_Witness ==
  /\ isRecurringAll(creq)
  /\ Cardinality(cancelTargets(creq)) >= 2
  /\ \E p \in ExternalDeletions : promises[p].kind = "calendar" /\ promises[p].state = "rejected"
  /\ \A b \in cancelTargets(creq) : bookingStatus[b] = "CANCELLED"

\* C19: when the handler has answered 200, every calendar and video deletion it issued
\* has completed successfully
C19_ResponseAfterDeletions ==
  response = "200" =>
    \A p \in ExternalDeletions : promises[p].state = "fulfilled"

====
